---- MODULE Spec2Model ----
(***************************************************************************)
(* A model of the two batch audio utilities of the repository:             *)
(*   process.py      Pipeline A, merge time-stamped recordings by group,   *)
(*                   with the three-tier loader robust_load_audio;         *)
(*   slice_audio.py  Pipeline B, cut a window out of a long recording and  *)
(*                   export it in fixed-size chunks.                       *)
(* Audio content is abstracted to the list of the files it was decoded     *)
(* from (Pipeline A) or to a millisecond interval (Pipeline B); decoding   *)
(* itself belongs to the external audio library and is an oracle.          *)
(***************************************************************************)
EXTENDS Integers, Sequences, FiniteSets, TLC

(* ------------------------------ bounds --------------------------------- *)
\* dates that appear in the names of the input directory
MaxDate == 2
\* largest files_per_group explored
MaxGroupSize == 3
\* longest file content (in bytes) handed to robust_load_audio
MaxBlob == 6
\* times on the command line: up to MaxSecs seconds in half-second steps, and
\* the first MaxFine ticks after zero; a tick is 1/Res of a millisecond
MaxSecs == 2
MaxFine == 5
Res == 2
\* the chunk loop is followed for at most MaxIter exported chunks
MaxIter == 6

(* -------------------------- program constants -------------------------- *)
\* the factor 1000 between seconds and milliseconds
MsPerSec == 1000

Min(a, b) == IF a <= b THEN a ELSE b
Max(a, b) == IF a >= b THEN a ELSE b

(* ============================== state ================================== *)

VARIABLES
    all_files,        \* names listed in input_dir that end in .wav
    decodable,        \* per name: what load + normalize do with that file
    files_per_group,
    sorted_files,
    skipped_badname,
    failed_files,
    group_index,
    i,                \* the group loop's range variable
    group_files,
    k,                \* position of the inner loop in group_files (1-based)
    combined,         \* the concatenated buffer, as the list of its segments
    ok_count,
    exported,         \* the files written by combined.export, in order
    visited,          \* the groups the loop has entered, in order
    pcA

varsA == << all_files, decodable, files_per_group, sorted_files, skipped_badname,
            failed_files, group_index, i, group_files, k, combined, ok_count,
            exported, visited, pcA >>

\* robust_load_audio(path), one invocation
VARIABLES
    blob,             \* the bytes of the file at path
    riff_pos,         \* blob.find(b"RIFF"); -1 until line 48 has run
    tmp_exists,       \* path + ".__trimmed__.wav" is on disk
    tmp_bytes,        \* its content
    calls,            \* the decode / write attempts made so far, with outcome
    result,           \* "none" while running, then "ok" or "raise"
    tier,             \* the tier whose decode was returned (0: none)
    pcL

varsL == << blob, riff_pos, tmp_exists, tmp_bytes, calls, result, tier, pcL >>

\* slice_audio.py main()
VARIABLES
    total_ms,         \* len(audio)
    start_sec,        \* parsed --start, in ticks
    end_sec,          \* parsed --end, in ticks
    chunk,            \* --chunk, in ticks
    drop_last,
    start_ms,
    end_ms,
    window_len,       \* len(window)
    out_root_made,    \* os.makedirs(out_root) has run
    chunk_ms,
    n,
    pos,
    written,          \* the seg.export calls so far, in order
    pcB

varsB == << total_ms, start_sec, end_sec, chunk, drop_last, start_ms, end_ms,
            window_len, out_root_made, chunk_ms, n, pos, written, pcB >>

vars == << varsA, varsL, varsB >>

\* a pipeline that is not running
IdleA ==
    /\ all_files = {} /\ decodable = << >> /\ files_per_group = 1
    /\ sorted_files = << >> /\ skipped_badname = {} /\ failed_files = << >>
    /\ group_index = 0 /\ i = 0 /\ group_files = << >> /\ k = 1
    /\ combined = << >> /\ ok_count = 0 /\ exported = << >>
    /\ visited = << >> /\ pcA = "idle"

IdleL ==
    /\ blob = << >> /\ riff_pos = -1 /\ tmp_exists = FALSE /\ tmp_bytes = << >>
    /\ calls = << >> /\ result = "none" /\ tier = 0 /\ pcL = "idle"

IdleB ==
    /\ total_ms = 0 /\ start_sec = 0 /\ end_sec = 0 /\ chunk = 0
    /\ drop_last = FALSE /\ start_ms = 0 /\ end_ms = 0 /\ window_len = 0
    /\ out_root_made = FALSE /\ chunk_ms = 0 /\ n = 0 /\ pos = 0
    /\ written = << >> /\ pcB = "idle"

(* ============================ PIPELINE A =============================== *)

\* A file name is <stem>_<date>_<time>.wav
\* (two recordings a day at most: times 1 and 2)
GoodNames == [stem : {"SBW1520"}, date : 1..MaxDate, time : {1, 2}]
BadNames  == [stem : {"REC"}, date : {1}, time : {1}]
AllNames  == GoodNames \cup BadNames

Outcomes == {"ok", "load_raises", "normalize_raises"}

\* re.match(pattern, f): the name carries the fixed prefix, a date and a time
NameMatches(f) == f.stem = "SBW1520"

\* datetime.strptime(date_str + time_str): ordered as the digit string is
Ts(f) == f.date * 1000000 + f.time

\* file_times.sort(key = timestamp): names that match have distinct timestamps
RECURSIVE SortFiles(_)
SortFiles(S) ==
    IF S = {} THEN << >>
    ELSE LET m == CHOOSE f \in S : \A g \in S : Ts(f) <= Ts(g)
         IN  << m >> \o SortFiles(S \ {m})

\* sorted_files[i : i + files_per_group], i 0-based
GroupSliceDropsOne(files, start, size) ==
    SubSeq(files, start + 1, Min(start + size, Len(files)) - 1)
GroupSlice(files, start, size) ==
    SubSeq(files, start + 1, Min(start + size, Len(files)))

\* combined += seg
ConcatFront(buf, seg) == seg \o buf
Concat(buf, seg) == buf \o seg

\* if ok_count == 0: ... continue
GroupEmptyOffByOne(ok) == ok <= 1
GroupEmpty(ok) == ok = 0

\* last = group_files[ok_count - 1] if ok_count == len(group_files) else group_files[-1]
LastForName(g, ok) == IF ok = Len(g) THEN g[ok] ELSE g[Len(g)]

\* os.path.splitext(first)[0]
BaseName(f) == f

\* end_tag: the time group of the pattern, or the whole base name
EndTag(last) ==
    IF NameMatches(last) THEN [stem |-> "", date |-> 0, time |-> last.time]
    ELSE BaseName(last)

\* f"{first_base}_TO_{end_tag}.wav"
OutName(first, last) == [first_base |-> BaseName(first), end_tag |-> EndTag(last)]

InitA ==
    /\ all_files \in SUBSET AllNames
    /\ decodable \in [GoodNames -> Outcomes]
    /\ \A f \in GoodNames \ all_files : decodable[f] = "ok"
    /\ files_per_group \in 1..MaxGroupSize
    /\ sorted_files = << >>
    /\ skipped_badname = {}
    /\ failed_files = << >>
    /\ group_index = 0
    /\ i = 0
    /\ group_files = << >>
    /\ k = 1
    /\ combined = << >>
    /\ ok_count = 0
    /\ exported = << >>
    /\ visited = << >>
    /\ pcA = "scan"
    /\ IdleL /\ IdleB

\* lines 91-112: list, match, parse, sort; then the loop variables
Scan ==
    /\ pcA = "scan"
    /\ sorted_files' = SortFiles({f \in all_files : NameMatches(f)})
    /\ skipped_badname' = {f \in all_files : ~NameMatches(f)}
    /\ failed_files' = << >>
    /\ group_index' = 0
    /\ i' = 0
    /\ pcA' = "group"
    /\ UNCHANGED << varsL, varsB >>
    /\ UNCHANGED << all_files, decodable, files_per_group, group_files, k,
                    combined, ok_count, exported, visited >>

\* lines 114-123: the next value of range(0, len, files_per_group)
GroupStart ==
    /\ pcA = "group"
    /\ i < Len(sorted_files)
    /\ group_files' = GroupSlice(sorted_files, i, files_per_group)
    /\ group_index' = group_index + 1
    /\ visited' = Append(visited, [start |-> i, files |-> group_files'])
    /\ combined' = << >>
    /\ ok_count' = 0
    /\ k' = 1
    /\ pcA' = "file"
    /\ UNCHANGED << varsL, varsB >>
    /\ UNCHANGED << all_files, decodable, files_per_group, sorted_files,
                    skipped_badname, failed_files, i, exported >>

\* lines 125-134: one iteration of the inner loop
ProcessFile ==
    /\ pcA = "file"
    /\ k <= Len(group_files)
    /\ LET filename == group_files[k] IN
         IF decodable[filename] = "ok"
         THEN /\ combined' = Concat(combined, << filename >>)
              /\ ok_count' = ok_count + 1
              /\ UNCHANGED failed_files
         ELSE /\ failed_files' = Append(failed_files, filename)
              /\ UNCHANGED << combined, ok_count >>
    /\ k' = k + 1
    /\ UNCHANGED << varsL, varsB >>
    /\ UNCHANGED << all_files, decodable, files_per_group, sorted_files,
                    skipped_badname, group_index, i, group_files, exported,
                    visited, pcA >>

\* lines 136-151: skip or name and export, then the range's next value
GroupFinish ==
    /\ pcA = "file"
    /\ k > Len(group_files)
    /\ IF GroupEmpty(ok_count)
       THEN UNCHANGED exported
       ELSE exported' = Append(exported,
                [name  |-> OutName(group_files[1], LastForName(group_files, ok_count)),
                 audio |-> combined,
                 files |-> group_files,
                 ok    |-> ok_count])
    /\ i' = i + files_per_group
    /\ pcA' = "group"
    /\ UNCHANGED << varsL, varsB >>
    /\ UNCHANGED << all_files, decodable, files_per_group, sorted_files,
                    skipped_badname, failed_files, group_index, group_files, k,
                    combined, ok_count, visited >>

\* lines 153-157: the range is exhausted, the summary is printed
Summary ==
    /\ pcA = "group"
    /\ i >= Len(sorted_files)
    /\ pcA' = "done"
    /\ UNCHANGED << varsL, varsB >>
    /\ UNCHANGED << all_files, decodable, files_per_group, sorted_files,
                    skipped_badname, failed_files, group_index, i, group_files,
                    k, combined, ok_count, exported, visited >>

NextA == Scan \/ GroupStart \/ ProcessFile \/ GroupFinish \/ Summary

SpecA == InitA /\ [][NextA]_vars

(* ======================= robust_load_audio ============================= *)

Bytes == {"R", "I", "F", "x"}
Magic == << "R", "I", "F", "F" >>

Blobs == UNION {[1..len -> Bytes] : len \in 0..MaxBlob}

\* bytes.find(pat): the lowest 0-based offset of pat, -1 when there is none
Find(b, pat) ==
    LET hits == {p \in 0..(Len(b) - Len(pat)) : SubSeq(b, p + 1, p + Len(pat)) = pat}
    IN  IF hits = {} THEN -1
        ELSE CHOOSE p \in hits : \A q \in hits : p <= q

\* if riff_pos >= 0
RiffFoundAlways(p) == TRUE
RiffFound(p) == p >= 0

\* blob[riff_pos:], a Python slice
Trim(b, p) ==
    LET from == IF p >= 0 THEN Min(p, Len(b)) ELSE Max(Len(b) + p, 0)
    IN  SubSeq(b, from + 1, Len(b))

Call(op, ok) == [op |-> op, ok |-> ok]

InitL ==
    /\ blob \in Blobs
    /\ riff_pos = -1
    /\ tmp_exists = FALSE
    /\ tmp_bytes = << >>
    /\ calls = << >>
    /\ result = "none"
    /\ tier = 0
    /\ pcL = "direct"
    /\ IdleA /\ IdleB

\* lines 38-42: tier 1, AudioSegment.from_wav(path)
TryDirect ==
    /\ pcL = "direct"
    /\ \E ok \in BOOLEAN :
         /\ calls' = Append(calls, Call("from_wav", ok))
         /\ IF ok THEN /\ result' = "ok" /\ tier' = 1 /\ pcL' = "done"
                  ELSE /\ pcL' = "read" /\ UNCHANGED << result, tier >>
    /\ UNCHANGED << blob, riff_pos, tmp_exists, tmp_bytes >>
    /\ UNCHANGED << varsA, varsB >>

\* lines 45-49 (and 67-68 when open/read raises): read the file, look for RIFF
ReadAndFind ==
    /\ pcL = "read"
    /\ \E ok \in BOOLEAN :
         IF ok
         THEN /\ riff_pos' = Find(blob, Magic)
              /\ pcL' = IF RiffFound(riff_pos') THEN "write" ELSE "raw"
         ELSE /\ pcL' = "raw" /\ UNCHANGED riff_pos
    /\ UNCHANGED << blob, tmp_exists, tmp_bytes, calls, result, tier >>
    /\ UNCHANGED << varsA, varsB >>

\* lines 50-52 (and 67-68 when open or write raises): write the trimmed copy.
\* open(..., "wb") creates the file; a write that raises leaves it behind.
WriteTrimmed ==
    /\ pcL = "write"
    /\ \E out \in {"open_raises", "write_raises", "ok"} :
         /\ calls' = Append(calls, Call("write_tmp", out = "ok"))
         /\ tmp_exists' = (tmp_exists \/ out # "open_raises")
         /\ tmp_bytes' = IF out = "ok" THEN Trim(blob, riff_pos) ELSE << >>
         /\ pcL' = IF out = "ok" THEN "retry" ELSE "raw"
    /\ UNCHANGED << blob, riff_pos, result, tier >>
    /\ UNCHANGED << varsA, varsB >>

\* lines 53-54, 61-62: tier 2, AudioSegment.from_wav(trimmed_path)
RetryTrimmed ==
    /\ pcL = "retry"
    /\ \E ok \in BOOLEAN :
         /\ calls' = Append(calls, Call("from_wav_trimmed", ok))
         /\ pcL' = IF ok THEN "remove_then_return" ELSE "remove_then_raw"
    /\ UNCHANGED << blob, riff_pos, tmp_exists, tmp_bytes, result, tier >>
    /\ UNCHANGED << varsA, varsB >>

\* lines 56-60 and 63-66: os.remove(trimmed_path), its failure swallowed
RemoveTmp ==
    /\ pcL \in {"remove_then_return", "remove_then_raw"}
    /\ \E removed \in BOOLEAN :
         /\ tmp_exists' = (tmp_exists /\ ~removed)
         /\ tmp_bytes' = IF removed THEN << >> ELSE tmp_bytes
    /\ IF pcL = "remove_then_return"
       THEN /\ result' = "ok" /\ tier' = 2 /\ pcL' = "done"
       ELSE /\ pcL' = "raw" /\ UNCHANGED << result, tier >>
    /\ UNCHANGED << blob, riff_pos, calls >>
    /\ UNCHANGED << varsA, varsB >>

\* lines 70-75: tier 3, AudioSegment.from_raw(path, ...)
TryRaw ==
    /\ pcL = "raw"
    /\ \E ok \in BOOLEAN :
         /\ calls' = Append(calls, Call("from_raw", ok))
         /\ result' = IF ok THEN "ok" ELSE "raise"
         /\ tier' = IF ok THEN 3 ELSE 0
    /\ pcL' = "done"
    /\ UNCHANGED << blob, riff_pos, tmp_exists, tmp_bytes >>
    /\ UNCHANGED << varsA, varsB >>

NextL == TryDirect \/ ReadAndFind \/ WriteTrimmed \/ RetryTrimmed \/ RemoveTmp \/ TryRaw

SpecL == InitL /\ [][NextL]_vars

(* ============================ PIPELINE B =============================== *)

\* Times are rationals with denominator Res * MsPerSec, written in ticks.
TicksPerSec == Res * MsPerSec
HalfSec == TicksPerSec \div 2

TimeInputs  == {q * HalfSec : q \in -1..(2 * MaxSecs)} \cup 1..MaxFine
ChunkInputs == {q * HalfSec : q \in -1..3} \cup 1..MaxFine
TotalInputs == {q * (MsPerSec \div 2) : q \in 0..(2 * MaxSecs)} \cup {1, 2}

\* int(round(x * 1000)), x in ticks: Python rounds halves to the even neighbour
RoundMs(x) ==
    LET q == x \div Res
        r == x % Res
    IN  IF 2 * r < Res THEN q
        ELSE IF 2 * r > Res THEN q + 1
        ELSE IF q % 2 = 0 THEN q ELSE q + 1

\* int(x), x in ticks: truncation towards zero, in whole seconds
IntSec(x) == IF x >= 0 THEN x \div TicksPerSec ELSE -((-x) \div TicksPerSec)

\* hms_from_seconds: the three numbers the tag prints (divmod floors)
hms_from_seconds(x) ==
    LET x_int == IntSec(x)
        h == x_int \div 3600
        r == x_int % 3600
    IN  << h, r \div 60, r % 60 >>

\* if end_ms <= start_ms: raise ValueError
WindowEmptyStrict(s, e) == e < s
WindowEmpty(s, e) == e <= s

\* len(audio[a:b]): pydub clips both ends of the slice to the audio's length
SliceLen(len, a, b) == Max(0, Min(b, len) - Min(a, len))

\* nxt = min(pos + chunk_ms, len(window))
NextPosUnclipped(p, c, w) == p + c
NextPos(p, c, w) == Min(p + c, w)

\* start_abs = start_sec + pos / 1000.0, in ticks
StartAbs(s, p) == s + p * Res

InitB ==
    /\ total_ms \in TotalInputs
    /\ start_sec \in TimeInputs
    /\ end_sec \in TimeInputs
    /\ chunk \in ChunkInputs
    /\ drop_last \in BOOLEAN
    /\ start_ms = 0
    /\ end_ms = 0
    /\ window_len = 0
    /\ out_root_made = FALSE
    /\ chunk_ms = 0
    /\ n = 0
    /\ pos = 0
    /\ written = << >>
    /\ pcB = "start"
    /\ IdleA /\ IdleL

\* lines 44-57: load, parse, the assertion, the clamped bounds, the window
ExtractWindow ==
    /\ pcB = "start"
    /\ IF ~(end_sec > start_sec)
       THEN /\ pcB' = "failed"
            /\ UNCHANGED << start_ms, end_ms, window_len >>
       ELSE /\ start_ms' = Max(0, RoundMs(start_sec))
            /\ end_ms' = Min(total_ms, RoundMs(end_sec))
            /\ IF WindowEmpty(start_ms', end_ms')
               THEN /\ pcB' = "failed"
                    /\ UNCHANGED window_len
               ELSE /\ window_len' = SliceLen(total_ms, start_ms', end_ms')
                    /\ pcB' = "window"
    /\ UNCHANGED << total_ms, start_sec, end_sec, chunk, drop_last,
                    out_root_made, chunk_ms, n, pos, written >>
    /\ UNCHANGED << varsA, varsL >>

\* lines 59-73: the output directory and the loop variables
PrepareLoop ==
    /\ pcB = "window"
    /\ out_root_made' = TRUE
    /\ chunk_ms' = RoundMs(chunk)
    /\ n' = 0
    /\ pos' = 0
    /\ pcB' = "loop"
    /\ UNCHANGED << total_ms, start_sec, end_sec, chunk, drop_last, start_ms,
                    end_ms, window_len, written >>
    /\ UNCHANGED << varsA, varsL >>

\* lines 74-88: one iteration of the while loop
ChunkStep ==
    /\ pcB = "loop"
    /\ pos < window_len
    /\ n < MaxIter
    /\ LET nxt == NextPos(pos, chunk_ms, window_len) IN
         IF drop_last /\ (nxt - pos) < chunk_ms
         THEN /\ pcB' = "summary"
              /\ UNCHANGED << n, pos, written >>
         ELSE /\ written' = Append(written,
                    [tag |-> hms_from_seconds(StartAbs(start_sec, pos)),
                     from |-> pos, to |-> nxt])
              /\ n' = n + 1
              /\ pos' = nxt
              /\ UNCHANGED pcB
    /\ UNCHANGED << total_ms, start_sec, end_sec, chunk, drop_last, start_ms,
                    end_ms, window_len, out_root_made, chunk_ms >>
    /\ UNCHANGED << varsA, varsL >>

\* line 74: the loop condition fails
LoopExit ==
    /\ pcB = "loop"
    /\ ~(pos < window_len)
    /\ pcB' = "summary"
    /\ UNCHANGED << total_ms, start_sec, end_sec, chunk, drop_last, start_ms,
                    end_ms, window_len, out_root_made, chunk_ms, n, pos, written >>
    /\ UNCHANGED << varsA, varsL >>

\* line 90: the final count
PrintSummary ==
    /\ pcB = "summary"
    /\ pcB' = "done"
    /\ UNCHANGED << total_ms, start_sec, end_sec, chunk, drop_last, start_ms,
                    end_ms, window_len, out_root_made, chunk_ms, n, pos, written >>
    /\ UNCHANGED << varsA, varsL >>

NextB == ExtractWindow \/ PrepareLoop \/ ChunkStep \/ LoopExit \/ PrintSummary

SpecB == InitB /\ [][NextB]_vars

(* ====================== properties of Pipeline A ======================= *)

Loaded(f) == decodable[f] = "ok"
Ceil(a, b) == (a + b - 1) \div b

RECURSIVE Flatten(_)
Flatten(ss) == IF ss = << >> THEN << >> ELSE Head(ss) \o Flatten(Tail(ss))

Occurrences(seq, x) == Cardinality({j \in 1..Len(seq) : seq[j] = x})

\* the last file of group g that was loaded and appended (g has one)
LastLoaded(g) ==
    g[CHOOSE j \in 1..Len(g) :
        /\ Loaded(g[j])
        /\ \A j2 \in (j + 1)..Len(g) : ~Loaded(g[j2])]

\* the groups whose inner loop and export decision are over
FinishedGroups ==
    LET gs == [j \in 1..Len(visited) |-> visited[j].files]
    IN  IF pcA = "file" THEN SubSeq(gs, 1, Len(gs) - 1) ELSE gs

HasLoaded(g) == \E j \in 1..Len(g) : Loaded(g[j])

\* C1: every exported file is named <base name of the group's first file>_TO_
\* <time portion of the last file of the group that was loaded and appended>,
\* also when the last file of the group failed to load.
C1_NamedAfterLastLoaded ==
    \A j \in 1..Len(exported) :
        LET e == exported[j] IN
            /\ e.name.first_base = e.files[1]
            /\ e.name.end_tag = [stem |-> "", date |-> 0, time |-> LastLoaded(e.files).time]

\* C2: when the inner loop of a group is over, the buffer is the group's loaded
\* files in sort order; each file of the group that failed is once in the
\* failed list and not in the buffer; and at the end of the run every file that
\* failed, in any group, is listed (in order) and every loaded file was appended
\* once to an exported buffer: a failure stops neither its group nor the run.
C2_FailureIsolation ==
    /\ (pcA = "file" /\ k > Len(group_files)) =>
          /\ combined = SelectSeq(group_files, Loaded)
          /\ \A j \in 1..Len(group_files) :
                ~Loaded(group_files[j]) =>
                    /\ Occurrences(failed_files, group_files[j]) = 1
                    /\ Occurrences(combined, group_files[j]) = 0
    /\ pcA = "done" =>
          /\ failed_files = SelectSeq(sorted_files, LAMBDA f : ~Loaded(f))
          /\ Flatten([j \in 1..Len(exported) |-> exported[j].audio])
                = SelectSeq(sorted_files, Loaded)

\* a group of three whose middle file failed, its inner loop over
C2_Witness ==
    /\ pcA = "file" /\ k > Len(group_files)
    /\ Len(group_files) = 3
    /\ Loaded(group_files[1]) /\ ~Loaded(group_files[2]) /\ Loaded(group_files[3])
    /\ combined = << group_files[1], group_files[3] >>
    /\ failed_files # << >>

\* C3: a group is exported once if one of its files was loaded and not at all
\* otherwise, and the run goes on either way: the exported files are, in order,
\* those of the finished groups with a success, each under a name of its own.
C3_ExportRule ==
    /\ [j \in 1..Len(exported) |-> exported[j].files]
          = SelectSeq(FinishedGroups, HasLoaded)
    /\ Cardinality({exported[j].name : j \in 1..Len(exported)}) = Len(exported)
    /\ pcA = "done" =>
          /\ Len(visited) = Ceil(Len(sorted_files), files_per_group)
          /\ Len(exported)
                = Cardinality({j \in 1..Len(visited) : HasLoaded(visited[j].files)})

\* a run that ended after a group with no success followed by an exported one
C3_Witness ==
    /\ pcA = "done"
    /\ Len(visited) >= 2
    /\ ~HasLoaded(visited[1].files)
    /\ HasLoaded(visited[2].files)
    /\ Len(exported) = 1

\* C4: the loop visits ceil(L/N) groups of N consecutive files, the last of 1
\* to N, taken in sort order; every file is in exactly one group.
C4_Grouping ==
    /\ \A j \in 1..Len(visited) :
          /\ visited[j].start = (j - 1) * files_per_group
          /\ Len(visited[j].files) >= 1
          /\ Len(visited[j].files) <= files_per_group
          /\ j < Ceil(Len(sorted_files), files_per_group)
                => Len(visited[j].files) = files_per_group
    /\ LET flat == Flatten([j \in 1..Len(visited) |-> visited[j].files])
       IN  /\ Len(flat) <= Len(sorted_files)
           /\ flat = SubSeq(sorted_files, 1, Len(flat))
           /\ pcA = "done" => flat = sorted_files
    /\ pcA = "done" => Len(visited) = Ceil(Len(sorted_files), files_per_group)
    /\ \A a, b \in 1..Len(sorted_files) : a < b => Ts(sorted_files[a]) < Ts(sorted_files[b])

\* four files in groups of three: a full group and a last group of one
C4_Witness ==
    /\ pcA = "done"
    /\ files_per_group = 3
    /\ Len(sorted_files) = 4
    /\ Len(visited) = 2
    /\ Len(visited[2].files) = 1

(* =================== properties of robust_load_audio =================== *)

Ops == {calls[j].op : j \in 1..Len(calls)}

Rank(op) ==
    CASE op = "from_wav" -> 1
      [] op = "write_tmp" -> 2
      [] op = "from_wav_trimmed" -> 3
      [] op = "from_raw" -> 4

\* C5: when robust_load_audio has returned or raised, the temporary file
\* <path>.__trimmed__.wav is not on disk, whatever path was taken.
C5_TmpRemoved == pcL = "done" => ~tmp_exists

\* The part of C6 that does not depend on the offset: direct decode, header
\* repair, raw PCM in that order, each after the failure of the one before,
\* return at the first success, failure only when every tier tried has failed.
TiersInOrder ==
    /\ calls # << >> => calls[1].op = "from_wav"
    /\ \A a, b \in 1..Len(calls) : a < b => Rank(calls[a].op) < Rank(calls[b].op)
    /\ \A j \in 1..Len(calls) :
          (j < Len(calls) /\ calls[j].op # "write_tmp") => ~calls[j].ok
    /\ "from_wav_trimmed" \in Ops =>
          \E j \in 1..Len(calls) : calls[j] = Call("write_tmp", TRUE)
    /\ (pcL = "done") <=> (result # "none")
    /\ result = "ok" =>
          /\ calls[Len(calls)].ok
          /\ Rank(calls[Len(calls)].op) = IF tier = 1 THEN 1 ELSE tier + 1
    /\ result = "raise" =>
          /\ calls[1] = Call("from_wav", FALSE)
          /\ calls[Len(calls)] = Call("from_raw", FALSE)
          /\ \A j \in 1..Len(calls) : calls[j].op # "write_tmp" => ~calls[j].ok

\* C6 as stated: the tiers in order, and the temporary file is written and the
\* structured decode retried only when RIFF is found at an offset k > 0; when
\* it is absent or at offset 0 the loader goes to raw PCM without a retry.
C6_RepairOnlyAtPositiveOffset ==
    /\ TiersInOrder
    /\ "write_tmp" \in Ops => Find(blob, Magic) > 0
    /\ Find(blob, Magic) <= 0 => "from_wav_trimmed" \notin Ops

\* C6 amended: the tiers in order, and the temporary file is written and the
\* structured decode retried only when RIFF is found at an offset k >= 0
\* (offset 0 included); only when it is absent does the loader go to raw PCM
\* with no temporary file and no retry.
C6_RepairOnlyWhenFound ==
    /\ TiersInOrder
    /\ "write_tmp" \in Ops =>
          /\ Find(blob, Magic) >= 0
          /\ riff_pos = Find(blob, Magic)
    /\ pcL \in {"retry", "remove_then_return", "remove_then_raw"} =>
          /\ tmp_exists
          /\ tmp_bytes = SubSeq(blob, Find(blob, Magic) + 1, Len(blob))
    /\ Find(blob, Magic) = -1 =>
          /\ "write_tmp" \notin Ops
          /\ "from_wav_trimmed" \notin Ops
          /\ ~tmp_exists

\* RIFF at offset 0: the copy was written, the retry failed, raw PCM was tried
C6_Witness ==
    /\ pcL = "done"
    /\ Find(blob, Magic) = 0
    /\ [j \in 1..Len(calls) |-> calls[j].op]
          = << "from_wav", "write_tmp", "from_wav_trimmed", "from_raw" >>

(* ====================== properties of Pipeline B ======================= *)

LoopReached == pcB \in {"loop", "summary", "done"}
LoopOver == pcB \in {"summary", "done"}

\* C7: for chunk_ms >= 1 the exported slices are [pos, min(pos + chunk_ms, W))
\* for pos = 0, chunk_ms, 2 chunk_ms, ...: contiguous, inside the window;
\* without drop_last there are ceil(W / chunk_ms) and they cover the window,
\* with drop_last there are floor(W / chunk_ms), all of length chunk_ms.
C7_Coverage ==
    (LoopReached /\ chunk_ms >= 1) =>
        /\ n = Len(written)
        /\ pos = IF written = << >> THEN 0 ELSE written[Len(written)].to
        /\ \A j \in 1..Len(written) :
              /\ written[j].from = (j - 1) * chunk_ms
              /\ written[j].to = Min(j * chunk_ms, window_len)
              /\ written[j].from < window_len
              /\ j > 1 => written[j].from = written[j - 1].to
        /\ (LoopOver /\ ~drop_last) =>
              /\ n = Ceil(window_len, chunk_ms)
              /\ pos = window_len
        /\ (LoopOver /\ drop_last) =>
              /\ n = window_len \div chunk_ms
              /\ \A j \in 1..Len(written) : written[j].to - written[j].from = chunk_ms
              /\ window_len - pos < chunk_ms

\* with drop_last: two full chunks exported, a shorter remainder left out
C7_Witness ==
    /\ pcB = "done"
    /\ drop_last
    /\ n = 2
    /\ pos < window_len

\* C8: the output directory is made and chunks are exported only if
\* end_sec > start_sec and 0 <= start_ms < end_ms <= total_ms; when
\* end_sec <= start_sec or the clamped end is not beyond the clamped start,
\* the run fails with no directory made and nothing exported.
C8_WindowValid ==
    /\ (out_root_made \/ written # << >>) =>
          /\ end_sec > start_sec
          /\ start_ms = Max(0, RoundMs(start_sec))
          /\ end_ms = Min(total_ms, RoundMs(end_sec))
          /\ 0 <= start_ms /\ start_ms < end_ms /\ end_ms <= total_ms
    /\ (pcB # "start" /\ (end_sec <= start_sec
                           \/ Min(total_ms, RoundMs(end_sec)) <= Max(0, RoundMs(start_sec)))) =>
          /\ pcB = "failed"
          /\ ~out_root_made
          /\ written = << >>

\* end_sec > start_sec, but the two round to the same millisecond: the run
\* failed on the clamped bounds
C8_Witness ==
    /\ pcB = "failed"
    /\ end_sec > start_sec
    /\ RoundMs(end_sec) = RoundMs(start_sec)
    /\ RoundMs(end_sec) < total_ms
    /\ ~out_root_made

TagLess(s, t) ==
    \/ s[1] < t[1]
    \/ s[1] = t[1] /\ s[2] < t[2]
    \/ s[1] = t[1] /\ s[2] = t[2] /\ s[3] < t[3]

\* C9: for chunk_ms >= 1 each exported chunk is named by the HHhMMmSSs tag of
\* start_sec + pos, the tags of successive chunks increase, so no two chunks
\* of a run have the same name and n counts distinct files.
C9_DistinctNames ==
    (LoopReached /\ chunk_ms >= 1) =>
        /\ \A j \in 1..Len(written) :
              written[j].tag = hms_from_seconds(start_sec + written[j].from * Res)
        /\ \A a, b \in 1..Len(written) :
              a < b => TagLess(written[a].tag, written[b].tag)
        /\ n = Cardinality({written[j].tag : j \in 1..Len(written)})

\* C10: on every iteration that does not leave the loop, pos increases (so
\* the loop ends), for every value of --chunk, chunk_ms <= 0 included.
C10_PosIncreases == [][(pcB = "loop" /\ pcB' = "loop") => pos' > pos]_vars

====
